---- MODULE Spec2Model ----
(***************************************************************************)
(* Model of the Speed game server: the rule engine of                      *)
(* server/src/game/mod.rs (GameState and its operations) and the           *)
(* per-connection control loop of server/src/websocket/mod.rs              *)
(* (handle_connection, send_game_state_to_player) with its two locks.      *)
(***************************************************************************)
EXTENDS Integers, Sequences, FiniteSets, TLC

\* ------------------------------------------------------------------ bounds

\* Number of connections (tasks) ever accepted; each gets a fresh identity.
MaxConns == 3
\* Number of deck orders the shuffle may produce.
MaxShuffle == 2
\* Number of inbound action messages the connections may send in total.
MaxActions == 1
\* Largest card_index a PlayCard carries, besides one that is out of range.
MaxIndex == 1

\* Number of connections, and of inbound actions they may send in total,
\* where the sends are recorded.
MaxOrderConns == 2
MaxOrderActions == 2

\* ------------------------------------------------------- program constants

NumRanks == 13
HandSize == 5
DrawSize == 15
MaxPlayers == 2

\* Option::None of an identity.
None == 0

Suits == <<"Hearts", "Diamonds", "Clubs", "Spades">>

\* The identities handed out by Uuid::new_v4(), one per connection.
Ids == 1..MaxConns

\* ------------------------------------------------------------- card model

\* Rank::can_play_on on the ranks' numeric values.
can_play_on(self_val, other_val) ==
    IF self_val = 1 /\ other_val = 13 THEN TRUE
    ELSE IF self_val = 13 /\ other_val = 1 THEN TRUE
    ELSE (IF self_val - other_val >= 0 THEN self_val - other_val
                                       ELSE other_val - self_val) = 1

\* create_deck: suit-major, rank 1..13 within each suit.
create_deck ==
    [i \in 1..(Len(Suits) * NumRanks) |->
        [suit |-> Suits[((i - 1) \div NumRanks) + 1],
         rank |-> ((i - 1) % NumRanks) + 1]]

\* ------------------------------------------------------------ game engine

\* GameState::new
NewGame ==
    [players      |-> <<>>,
     center_piles |-> <<<<>>, <<>>>>,
     deck         |-> create_deck,
     game_started |-> FALSE,
     winner       |-> None]

\* One order of the 52 cards, as indices into a deck, bottom first (the last
\* element is the first card popped).  It deals the first player a hand and
\* draw pile that can be played out to a win, so that a whole game lies
\* within what is explored.
Arrangement ==
    <<49, 48, 35, 22, 43, 47, 34, 44, 45, 21,  8,  9, 32,
      46, 33, 20,  7, 31, 18,  5, 42, 29, 16, 41, 28, 36,
       3, 30, 19, 17,  6,  4, 50, 51, 52, 40, 15, 27, 39,
      38, 37, 23, 24, 25, 26, 14,  2,  1, 13, 12, 11, 10>>

\* The card index i with its rank moved k places round the circle of ranks.
ShiftRank(i, k) ==
    (((i - 1) \div NumRanks) * NumRanks) + ((((i - 1) % NumRanks) + k) % NumRanks) + 1

\* Position i of the deck with the two players' 20-card blocks exchanged.
SwapBlocks(i) ==
    LET n     == Len(Arrangement)
        block == HandSize + DrawSize
    IN  IF i > n - block THEN i - block
        ELSE IF i > n - 2 * block THEN i + block
        ELSE i

\* The deck orders deck.shuffle(rng) may leave: the k-th of a bounded family
\* of permutations of the deck.  For a full deck: Arrangement with the ranks
\* moved k places and, for odd k, the two players' cards exchanged; for any
\* other deck, the rotation by k places.
shuffle(deck, k) ==
    IF Len(deck) = 0 THEN deck
    ELSE IF Len(deck) = Len(Arrangement)
    THEN [i \in 1..Len(deck) |->
            deck[ShiftRank(Arrangement[IF k % 2 = 1 THEN SwapBlocks(i) ELSE i], k)]]
    ELSE [i \in 1..Len(deck) |-> deck[((i - 1 + k) % Len(deck)) + 1]]

\* n calls of deck.pop(), each guarded by "if let Some": the cards taken, in
\* the order taken (from the end of the deck), and what is left.
Popped(deck, n) ==
    LET m == IF n <= Len(deck) THEN n ELSE Len(deck)
    IN  [i \in 1..m |-> deck[Len(deck) - i + 1]]

AfterPop(deck, n) ==
    LET m == IF n <= Len(deck) THEN n ELSE Len(deck)
    IN  SubSeq(deck, 1, Len(deck) - m)

\* deal_cards: each player in turn, 5 to the hand then 15 to the draw pile.
RECURSIVE deal_cards_from(_, _)
deal_cards_from(g, i) ==
    IF i > Len(g.players) THEN g
    ELSE LET hand  == Popped(g.deck, HandSize)
             d1    == AfterPop(g.deck, HandSize)
             draw  == Popped(d1, DrawSize)
             d2    == AfterPop(d1, DrawSize)
             p     == g.players[i]
             p2    == [p EXCEPT !.hand = p.hand \o hand,
                                !.draw_pile = p.draw_pile \o draw]
         IN  deal_cards_from([g EXCEPT !.players[i] = p2, !.deck = d2], i + 1)

deal_cards(g) == deal_cards_from(g, 1)

\* deal_center_cards / the loop of request_new_center_cards: one pop per pile,
\* pile 0 first, each guarded by "if let Some".
RECURSIVE deal_center_from(_, _)
deal_center_from(g, i) ==
    IF i > Len(g.center_piles) THEN g
    ELSE IF Len(g.deck) = 0 THEN deal_center_from(g, i + 1)
    ELSE deal_center_from(
            [g EXCEPT !.center_piles[i] = Append(g.center_piles[i], g.deck[Len(g.deck)]),
                      !.deck = SubSeq(g.deck, 1, Len(g.deck) - 1)],
            i + 1)

\* deal_center_cards forgotten: no card goes to the center.
deal_center_cards_none(g) == g

deal_center_cards(g) == deal_center_from(g, 1)

\* GameState::start_game, k the outcome of the shuffle.
start_game(g, k) ==
    IF Len(g.players) # MaxPlayers THEN g
    ELSE LET shuffled == [g EXCEPT !.deck = shuffle(g.deck, k)]
             dealt    == deal_center_cards(deal_cards(shuffled))
         IN  [dealt EXCEPT !.game_started = TRUE]

\* GameState::add_player: the state afterwards.
add_player(g, id) ==
    IF Len(g.players) >= MaxPlayers THEN g
    ELSE [g EXCEPT !.players = Append(g.players,
                        [id |-> id, hand |-> <<>>, draw_pile |-> <<>>])]

\* players.iter().position(|p| p.id == player_id): the first index (1-based)
\* or 0 for None.
position(g, player_id) ==
    IF \E i \in 1..Len(g.players) : g.players[i].id = player_id
    THEN CHOOSE i \in 1..Len(g.players) :
            /\ g.players[i].id = player_id
            /\ \A j \in 1..(i - 1) : g.players[j].id # player_id
    ELSE 0

\* The pile scan with the rank test forgotten: the first pile takes any card.
selected_pile_index_first(g, card) == 1

\* The pile scan run from the last pile down: the last pile that accepts.
selected_pile_index_last(g, card) ==
    LET ok(i) == \/ Len(g.center_piles[i]) = 0
                 \/ can_play_on(card.rank,
                        g.center_piles[i][Len(g.center_piles[i])].rank)
    IN  IF \E i \in 1..Len(g.center_piles) : ok(i)
        THEN CHOOSE i \in 1..Len(g.center_piles) :
                ok(i) /\ \A j \in (i + 1)..Len(g.center_piles) : ~ok(j)
        ELSE 0

\* The pile scan of play_card: the first pile (1-based) that is empty or whose
\* top the card can be played on, 0 for None.
selected_pile_index(g, card) ==
    LET ok(i) == \/ Len(g.center_piles[i]) = 0
                 \/ can_play_on(card.rank,
                        g.center_piles[i][Len(g.center_piles[i])].rank)
    IN  IF \E i \in 1..Len(g.center_piles) : ok(i)
        THEN CHOOSE i \in 1..Len(g.center_piles) :
                ok(i) /\ \A j \in 1..(i - 1) : ~ok(j)
        ELSE 0

\* RemoveAt with the removal forgotten: the played card stays in the hand.
RemoveAt_kept(s, index) == s

\* Vec::remove(index), index 0-based.
RemoveAt(s, index) == SubSeq(s, 1, index) \o SubSeq(s, index + 2, Len(s))

\* play_card without the draw that refills the hand.
play_card_nodraw(g, player_id, card_index) ==
    LET player_index == position(g, player_id)
    IN  IF player_index = 0 THEN g
        ELSE IF card_index >= Len(g.players[player_index].hand) THEN g
        ELSE LET card       == g.players[player_index].hand[card_index + 1]
                 pile_index == selected_pile_index(g, card)
             IN  IF pile_index = 0 THEN g
                 ELSE [g EXCEPT !.players[player_index].hand = RemoveAt(@, card_index),
                                !.center_piles[pile_index] =
                                    Append(g.center_piles[pile_index], card)]

\* GameState::play_card, card_index 0-based as on the wire.
play_card(g, player_id, card_index) ==
    LET player_index == position(g, player_id)
    IN  IF player_index = 0 THEN g
        ELSE IF card_index >= Len(g.players[player_index].hand) THEN g
        ELSE LET card       == g.players[player_index].hand[card_index + 1]
                 pile_index == selected_pile_index(g, card)
             IN  IF pile_index = 0 THEN g
                 ELSE LET p      == g.players[player_index]
                          hand1  == RemoveAt(p.hand, card_index)
                          p2     == IF Len(p.draw_pile) > 0
                                    THEN [p EXCEPT !.hand = Append(hand1, Head(p.draw_pile)),
                                                   !.draw_pile = Tail(p.draw_pile)]
                                    ELSE [p EXCEPT !.hand = hand1]
                      IN  [g EXCEPT !.players[player_index] = p2,
                                    !.center_piles[pile_index] =
                                        Append(g.center_piles[pile_index], card)]

\* request_new_center_cards dealing to the last center pile only.
request_new_center_cards_single(g) ==
    IF Len(g.deck) = 0 THEN g ELSE deal_center_from(g, Len(g.center_piles))

\* GameState::request_new_center_cards
request_new_center_cards(g) ==
    IF Len(g.deck) = 0 THEN g ELSE deal_center_from(g, 1)

\* GameState::check_winner: the first player, in player order, whose hand and
\* draw pile are both empty.
check_winner(g) ==
    LET empty(i) == Len(g.players[i].hand) = 0 /\ Len(g.players[i].draw_pile) = 0
    IN  IF \E i \in 1..Len(g.players) : empty(i)
        THEN LET first == CHOOSE i \in 1..Len(g.players) :
                              empty(i) /\ \A j \in 1..(i - 1) : ~empty(j)
             IN  [g EXCEPT !.winner = g.players[first].id]
        ELSE g

\* PlayerAction values.
PlayCard(card_index) == [type |-> "PlayCard", card_index |-> card_index]
RequestNewCenterCards == [type |-> "RequestNewCenterCards", card_index |-> 0]

\* process_command without the "winner already set" half of its guard.
process_command_unlatched(g, player_id, action) ==
    IF ~g.game_started THEN g
    ELSE check_winner(
            IF action.type = "PlayCard"
            THEN play_card(g, player_id, action.card_index)
            ELSE request_new_center_cards(g))

\* GameState::process_command
process_command(g, player_id, action) ==
    IF ~g.game_started \/ g.winner # None THEN g
    ELSE check_winner(
            IF action.type = "PlayCard"
            THEN play_card(g, player_id, action.card_index)
            ELSE request_new_center_cards(g))

\* Line 268 of create_player_view: the index of the player, the first
\* player's when the identity is not found (unwrap_or(0)); 1-based.
view_index(g, player_id) ==
    IF position(g, player_id) = 0 THEN 1 ELSE position(g, player_id)

\* Line 271: &self.players[player_index] is out of bounds, and panics, when
\* there is no player at all.
view_panics(g, player_id) == view_index(g, player_id) > Len(g.players)

\* GameState::create_player_view, where it does not panic.
create_player_view(g, player_id) ==
    LET player_index   == view_index(g, player_id)
        player         == g.players[player_index]
        opponent_index == IF player_index = 1 THEN 2 ELSE 1
    IN  [player_id                |-> player_id,
         hand                     |-> player.hand,
         draw_pile_count          |-> Len(player.draw_pile),
         opponent_hand_count      |->
             IF Len(g.players) > 1 THEN Len(g.players[opponent_index].hand) ELSE 0,
         opponent_draw_pile_count |->
             IF Len(g.players) > 1 THEN Len(g.players[opponent_index].draw_pile) ELSE 0,
         center_piles             |-> g.center_piles,
         game_started             |-> g.game_started,
         winner                   |-> g.winner]

\* ------------------------------------------------------------------ state

VARIABLES
    game,           \* the shared GameState (SharedGameState's content)
    players,        \* the registry Players: the identities that have a sender
    players_lock,   \* holder of the registry mutex, None when free
    game_lock,      \* holder of the game-state mutex, None when free
    pc,             \* where each connection task is in handle_connection
    command,        \* the parsed action a task is about to apply
    player_views,   \* each task's local Vec of (id, view) still to send
    phase,          \* which broadcast a task's player_views belong to
    actions_left,   \* inbound actions the clients may still send
    last_sent       \* per identity, the view last handed to its socket, if
                    \* any, where the sends are recorded

vars == <<game, players, players_lock, game_lock, pc, command, player_views,
          phase, actions_left, last_sent>>

conn_vars == <<players, players_lock, game_lock, pc, command, player_views,
               phase, actions_left, last_sent>>

\* The inputs of process_command: the card indexes up to MaxIndex and one
\* that is out of range of any hand (no hand holds the whole deck), and the
\* request for new center cards.
Actions ==
    {PlayCard(i) : i \in (0..MaxIndex) \cup {Len(create_deck)}}
        \cup {RequestNewCenterCards}

\* run_websocket_server: an empty registry, a new game, both mutexes free;
\* every connection task is about to register.
Init ==
    /\ game = NewGame
    /\ players = {}
    /\ players_lock = None
    /\ game_lock = None
    /\ pc = [t \in Ids |-> "register"]
    /\ command = [t \in Ids |-> RequestNewCenterCards]
    /\ player_views = [t \in Ids |-> <<>>]
    /\ phase = [t \in Ids |-> "initial"]
    /\ actions_left = MaxActions
    /\ last_sent = [r \in Ids |-> <<>>]

\* ------------------------------------------- the engine called directly

EngineAddPlayer ==
    /\ \E id \in Ids : game' = add_player(game, id)
    /\ UNCHANGED conn_vars

EngineStartGame ==
    /\ \E k \in 0..(MaxShuffle - 1) : game' = start_game(game, k)
    /\ UNCHANGED conn_vars

EngineProcessCommand ==
    /\ \E id \in Ids, a \in Actions : game' = process_command(game, id, a)
    /\ UNCHANGED conn_vars

EngineNext == EngineAddPlayer \/ EngineStartGame \/ EngineProcessCommand

EngineSpec == Init /\ [][EngineNext]_vars

\* ------------------------------------------------- the connection tasks

\* The orders in which players_lock.keys() may yield the registry's keys.
KeyOrders(keys) ==
    {o \in [1..Cardinality(keys) -> keys] :
        \A i, j \in 1..Cardinality(keys) : i # j => o[i] # o[j]}

\* for &id in players_lock.keys() { game.add_player(id); }
RECURSIVE add_players(_, _)
add_players(g, order) ==
    IF Len(order) = 0 THEN g
    ELSE add_players(add_player(g, Head(order)), Tail(order))

\* players_lock.keys().map(|&id| (id, game.create_player_view(id))).collect()
create_views(g, order) ==
    [i \in 1..Len(order) |-> <<order[i], create_player_view(g, order[i])>>]

Panics(g, order) == \E i \in 1..Len(order) : view_panics(g, order[i])

\* Where a task goes once its player_views are all sent.
AfterBroadcast(t) ==
    IF phase[t] = "disconnect" THEN "closed" ELSE "recv"

\* Lines 85-89, 114-119: lock the registry, insert the sender; with exactly
\* two entries go on to start the game (registry still locked), otherwise
\* release the registry and enter the receive loop.
Register(t) ==
    /\ pc[t] = "register"
    /\ players_lock = None
    /\ players' = players \cup {t}
    /\ IF Cardinality(players') = MaxPlayers
       THEN /\ players_lock' = t
            /\ pc' = [pc EXCEPT ![t] = "reg_game_wait"]
       ELSE /\ players_lock' = None
            /\ pc' = [pc EXCEPT ![t] = "recv"]
    /\ UNCHANGED <<game, game_lock, command, player_views, phase, actions_left, last_sent>>

\* Lines 93-104: lock the game, add every registered identity, start the
\* game, compute the views.
RegisterStart(t) ==
    /\ pc[t] = "reg_game_wait"
    /\ game_lock = None
    /\ \E order \in KeyOrders(players), k \in 0..(MaxShuffle - 1) :
          /\ game' = start_game(add_players(game, order), k)
          /\ player_views' = [player_views EXCEPT ![t] = create_views(game', order)]
    /\ game_lock' = t
    /\ phase' = [phase EXCEPT ![t] = "initial"]
    /\ pc' = [pc EXCEPT ![t] = "reg_drop"]
    /\ UNCHANGED <<players, players_lock, command, actions_left, last_sent>>

\* Lines 107-108, 147-148, 192-193: drop(game); drop(players_lock).
DropLocks(t, at) ==
    /\ pc[t] = at
    /\ game_lock' = None
    /\ players_lock' = None
    /\ pc' = [pc EXCEPT ![t] = "send"]
    /\ UNCHANGED <<game, players, command, player_views, phase, actions_left, last_sent>>

RegisterDrop(t) == DropLocks(t, "reg_drop")

\* send_game_state_to_player, lines 34-35: lock the registry and look the
\* recipient up; with a sender, hand it the view and suspend in
\* sender.send(..).await, the registry still locked; without one, return Ok.
\* With record, last_sent keeps the view handed over and the broadcast it
\* belongs to.
SendLockAt(t, record) ==
    /\ pc[t] = "send"
    /\ players_lock = None
    /\ IF Head(player_views[t])[1] \in players
       THEN /\ players_lock' = t
            /\ pc' = [pc EXCEPT ![t] = "sending"]
            /\ last_sent' = IF record
                            THEN [last_sent EXCEPT ![Head(player_views[t])[1]] =
                                     <<Head(player_views[t])[2], phase[t]>>]
                            ELSE last_sent
            /\ UNCHANGED player_views
       ELSE /\ players_lock' = None
            /\ player_views' = [player_views EXCEPT ![t] = Tail(@)]
            /\ pc' = [pc EXCEPT ![t] =
                        IF Len(player_views[t]) = 1 THEN AfterBroadcast(t) ELSE "send"]
            /\ UNCHANGED last_sent
    /\ UNCHANGED <<game, players, game_lock, command, phase, actions_left>>

SendLock(t) == SendLockAt(t, FALSE)

SendLockRecorded(t) == SendLockAt(t, TRUE)

\* Lines 37-40 and the callers' handling of the result: the send completes
\* (ok) or fails; the registry guard is dropped on return.  The initial
\* broadcast propagates the error with `?` (line 112); the broadcasts after an
\* action (152-154) and after a disconnect (197-199) log it and go on.
SendDone(t) ==
    /\ pc[t] = "sending"
    /\ players_lock' = None
    /\ \E ok \in BOOLEAN :
          IF ~ok /\ phase[t] = "initial"
          THEN /\ pc' = [pc EXCEPT ![t] = "err_send"]
               /\ UNCHANGED player_views
          ELSE /\ player_views' = [player_views EXCEPT ![t] = Tail(@)]
               /\ pc' = [pc EXCEPT ![t] =
                           IF Len(player_views[t]) = 1 THEN AfterBroadcast(t) ELSE "send"]
    /\ UNCHANGED <<game, players, game_lock, command, phase, actions_left, last_sent>>

\* Lines 122-132: a text or binary message that parses as a PlayerAction.
RecvAction(t) ==
    /\ pc[t] = "recv"
    /\ actions_left > 0
    /\ \E a \in Actions : command' = [command EXCEPT ![t] = a]
    /\ actions_left' = actions_left - 1
    /\ pc' = [pc EXCEPT ![t] = "act_game_wait"]
    /\ UNCHANGED <<game, players, players_lock, game_lock, player_views, phase, last_sent>>

\* Lines 156-158: a message that does not parse; logged, nothing else.
RecvInvalid(t) ==
    /\ pc[t] = "recv"
    /\ UNCHANGED vars

\* Line 127, msg.to_text()?: a binary message that is not UTF-8 makes
\* handle_connection return the error, skipping the disconnect handling.
RecvNotText(t) ==
    /\ pc[t] = "recv"
    /\ pc' = [pc EXCEPT ![t] = "err_text"]
    /\ UNCHANGED <<game, players, players_lock, game_lock, command, player_views,
                   phase, actions_left, last_sent>>

\* Lines 122, 161-164: the stream ends or yields an error; leave the loop.
RecvClose(t) ==
    /\ pc[t] = "recv"
    /\ pc' = [pc EXCEPT ![t] = "disc_players_wait"]
    /\ UNCHANGED <<game, players, players_lock, game_lock, command, player_views,
                   phase, actions_left, last_sent>>

\* Lines 135-136: lock the game and apply the command.
ActGame(t) ==
    /\ pc[t] = "act_game_wait"
    /\ game_lock = None
    /\ game_lock' = t
    /\ game' = process_command(game, t, command[t])
    /\ pc' = [pc EXCEPT ![t] = "act_players_wait"]
    /\ UNCHANGED <<players, players_lock, command, player_views, phase, actions_left, last_sent>>

\* Lines 139-144: lock the registry, the game still locked, and compute a
\* view for every registered identity.  A view computation that panics
\* unwinds the task: both guards are dropped and the task is gone.
ActViews(t) ==
    /\ pc[t] = "act_players_wait"
    /\ players_lock = None
    /\ \E order \in KeyOrders(players) :
          IF Panics(game, order)
          THEN /\ players_lock' = None
               /\ game_lock' = None
               /\ pc' = [pc EXCEPT ![t] = "panicked"]
               /\ UNCHANGED <<player_views, phase>>
          ELSE /\ players_lock' = t
               /\ game_lock' = game_lock
               /\ player_views' = [player_views EXCEPT ![t] = create_views(game, order)]
               /\ phase' = [phase EXCEPT ![t] = "action"]
               /\ pc' = [pc EXCEPT ![t] = "act_drop"]
    /\ UNCHANGED <<game, players, command, actions_left, last_sent>>

ActDrop(t) == DropLocks(t, "act_drop")

\* Lines 170-175: lock the registry and remove the own entry; with entries
\* left go on to reset the game, registry still locked.
Disconnect(t) ==
    /\ pc[t] = "disc_players_wait"
    /\ players_lock = None
    /\ players_lock' = t
    /\ players' = players \ {t}
    /\ pc' = [pc EXCEPT ![t] = IF players' # {} THEN "disc_game_wait" ELSE "disc_end"]
    /\ UNCHANGED <<game, game_lock, command, player_views, phase, actions_left, last_sent>>

\* Lines 176-189: lock the game, replace it by a new one, add the remaining
\* identities, compute their views.
DisconnectReset(t) ==
    /\ pc[t] = "disc_game_wait"
    /\ game_lock = None
    /\ game_lock' = t
    /\ \E order \in KeyOrders(players) :
          /\ game' = add_players(NewGame, order)
          /\ player_views' = [player_views EXCEPT ![t] = create_views(game', order)]
    /\ phase' = [phase EXCEPT ![t] = "disconnect"]
    /\ pc' = [pc EXCEPT ![t] = "disc_drop"]
    /\ UNCHANGED <<players, players_lock, command, actions_left, last_sent>>

DisconnectDrop(t) == DropLocks(t, "disc_drop")

\* Line 202: with no entry left the block ends and the registry guard drops.
DisconnectEnd(t) ==
    /\ pc[t] = "disc_end"
    /\ players_lock' = None
    /\ pc' = [pc EXCEPT ![t] = "closed"]
    /\ UNCHANGED <<game, players, game_lock, command, player_views, phase, actions_left, last_sent>>

Next ==
    \E t \in Ids :
        \/ Register(t)
        \/ RegisterStart(t)
        \/ RegisterDrop(t)
        \/ SendLock(t)
        \/ SendDone(t)
        \/ RecvAction(t)
        \/ RecvInvalid(t)
        \/ RecvNotText(t)
        \/ RecvClose(t)
        \/ ActGame(t)
        \/ ActViews(t)
        \/ ActDrop(t)
        \/ Disconnect(t)
        \/ DisconnectReset(t)
        \/ DisconnectDrop(t)
        \/ DisconnectEnd(t)

Spec == Init /\ [][Next]_vars

\* ------------------------------- two connections, their sends recorded

\* run_websocket_server, as Init, with the budget of inbound actions of the
\* recorded runs.
OrderInit ==
    /\ game = NewGame
    /\ players = {}
    /\ players_lock = None
    /\ game_lock = None
    /\ pc = [t \in Ids |-> "register"]
    /\ command = [t \in Ids |-> RequestNewCenterCards]
    /\ player_views = [t \in Ids |-> <<>>]
    /\ phase = [t \in Ids |-> "initial"]
    /\ actions_left = MaxOrderActions
    /\ last_sent = [r \in Ids |-> <<>>]

\* handle_connection of the first MaxOrderConns connections, every view
\* handed to a socket recorded.
OrderNext ==
    \E t \in 1..MaxOrderConns :
        \/ Register(t)
        \/ RegisterStart(t)
        \/ RegisterDrop(t)
        \/ SendLockRecorded(t)
        \/ SendDone(t)
        \/ RecvAction(t)
        \/ RecvInvalid(t)
        \/ RecvNotText(t)
        \/ RecvClose(t)
        \/ ActGame(t)
        \/ ActViews(t)
        \/ ActDrop(t)
        \/ Disconnect(t)
        \/ DisconnectReset(t)
        \/ DisconnectDrop(t)
        \/ DisconnectEnd(t)

OrderSpec == OrderInit /\ [][OrderNext]_vars

\* ----------------------------------------------------------------- claims

\* Every card held anywhere in the game: deck, hands, draw piles, center piles.
RECURSIVE Flatten(_)
Flatten(seqs) == IF Len(seqs) = 0 THEN <<>> ELSE Head(seqs) \o Flatten(Tail(seqs))

AllCards(g) ==
    g.deck
    \o Flatten([i \in 1..Len(g.players) |-> g.players[i].hand])
    \o Flatten([i \in 1..Len(g.players) |-> g.players[i].draw_pile])
    \o Flatten(g.center_piles)

IsEmptyHanded(g, i) ==
    Len(g.players[i].hand) = 0 /\ Len(g.players[i].draw_pile) = 0

\* C1: card conservation.  In every state reachable by any sequence of
\* add_player, start_game and process_command calls, the deck, the hands, the
\* draw piles and the two center piles hold 52 cards together (and they are
\* the 52 cards of the deck, each once).
C1_CardConservation ==
    /\ Len(AllCards(game)) = 52
    /\ {AllCards(game)[i] : i \in 1..Len(AllCards(game))}
          = {create_deck[i] : i \in 1..Len(create_deck)}

\* C1 witness: a started game in which cards have been played from a draw
\* pile and new center cards have been dealt from the deck.
C1_Witness ==
    /\ game.game_started
    /\ Len(game.deck) < Len(create_deck) - MaxPlayers * (HandSize + DrawSize) - 2
    /\ \E i \in 1..Len(game.players) : Len(game.players[i].draw_pile) < DrawSize
    /\ Len(game.center_piles[2]) > 2

\* C2: win latch.  In a started game a player whose hand and draw pile are
\* both empty is the winner (the first such player in player order); a winner
\* once set never changes; and with a winner set process_command leaves the
\* whole game state unchanged for every identity, every card index and the
\* request for new center cards.
C2_WinnerDeclared ==
    game.game_started =>
        \A i \in 1..Len(game.players) :
            (IsEmptyHanded(game, i) /\ \A j \in 1..(i - 1) : ~IsEmptyHanded(game, j))
                => game.winner = game.players[i].id

C2_NoOpAfterWin ==
    game.winner # None =>
        \A id \in Ids \cup {MaxConns + 1} :
            \A a \in {PlayCard(i) : i \in 0..Len(create_deck)} \cup {RequestNewCenterCards} :
                process_command(game, id, a) = game

C2_WinLatch ==
    /\ [](C2_WinnerDeclared /\ C2_NoOpAfterWin)
    /\ [][game.winner # None => game'.winner = game.winner]_vars

\* C2 witness: a player has played out hand and draw pile and is the winner.
C2_Witness ==
    /\ game.game_started
    /\ game.winner # None
    /\ \E i \in 1..Len(game.players) :
          IsEmptyHanded(game, i) /\ game.players[i].id = game.winner

\* The hand that is an identity's own: that of its player record, none for
\* an identity that is not a player.
OwnHand(g, id) ==
    IF position(g, id) = 0 THEN <<>> ELSE g.players[position(g, id)].hand

\* A task that has just computed its views and still holds both locks.
HoldsViews(t) == pc[t] \in {"reg_drop", "act_drop", "disc_drop"}

\* C3: view asymmetry.  Every view the connection tasks compute for an
\* identity p shows p's own hand and no card of another player's hand, and
\* the draw pile only as a count.
C3_ViewAsymmetry ==
    \A t \in Ids :
        HoldsViews(t) =>
            \A i \in 1..Len(player_views[t]) :
                LET id   == player_views[t][i][1]
                    view == player_views[t][i][2]
                IN  /\ view.hand = OwnHand(game, id)
                    /\ \A j \in 1..Len(game.players) :
                          game.players[j].id # id =>
                              \A n \in 1..Len(view.hand), m \in 1..Len(game.players[j].hand) :
                                  view.hand[n] # game.players[j].hand[m]

\* C4: deadlock freedom.  No state is reachable in which one task holds the
\* game lock and waits for the registry lock while another holds the registry
\* lock and waits for the game lock.
C4_NoDeadlock ==
    ~ \E t1, t2 \in Ids :
        /\ game_lock = t1 /\ pc[t1] = "act_players_wait"
        /\ players_lock = t2 /\ pc[t2] \in {"reg_game_wait", "disc_game_wait"}

\* C5: lock order of action processing.  No task requests the registry lock
\* while it holds the game lock.
C5_EngineReleasedBeforeRegistry ==
    \A t \in Ids : ~(game_lock = t /\ pc[t] = "act_players_wait")

\* C6: no lock across I/O.  A task suspended in a network send holds neither
\* the game lock nor the registry lock.
C6_NoLockAcrossSend ==
    \A t \in Ids : pc[t] = "sending" => (players_lock # t /\ game_lock # t)

\* C7: send-failure isolation.  A failed send never ends the broadcasting
\* task, and never leaves views of its broadcast unsent.
C7_SendFailureIsolated ==
    \A t \in Ids : pc[t] # "err_send"

\* C8: start on the second registration.  When a registration has brought the
\* registry to two entries, the game is started and its players are exactly
\* the two registered identities, each once.
C8_StartWithRegistered ==
    \A t \in Ids :
        pc[t] = "reg_drop" =>
            /\ game.game_started
            /\ Len(game.players) = Cardinality(players)
            /\ {game.players[i].id : i \in 1..Len(game.players)} = players

\* C9: reset on disconnect.  When the disconnect handling of a connection has
\* done its work, the game is a new one (not started, no winner, the full
\* deck, empty center piles, empty hands and draw piles) whose players are
\* exactly the identities still registered.
C9_ResetOnDisconnect ==
    \A t \in Ids :
        pc[t] \in {"disc_drop", "disc_end"} =>
            /\ ~game.game_started
            /\ game.winner = None
            /\ game.deck = create_deck
            /\ game.center_piles = <<<<>>, <<>>>>
            /\ \A i \in 1..Len(game.players) : IsEmptyHanded(game, i)
            /\ Len(game.players) = Cardinality(players)
            /\ {game.players[i].id : i \in 1..Len(game.players)} = players

\* C10: registry capacity.  The registry never holds more than two
\* identities.
C10_RegistryCapacity == Cardinality(players) <= 2

\* Two ranks are adjacent: they differ by one, or they are Ace and King.
Adjacent(a, b) == a - b = 1 \/ b - a = 1 \/ {a, b} = {1, NumRanks}

\* A center pile accepts a card: it is empty, or its top is adjacent in rank.
PileAccepts(pile, card) ==
    Len(pile) = 0 \/ Adjacent(card.rank, pile[Len(pile)].rank)

\* The identities a command may carry: every connection's, and one more that
\* is never a player.
ProbeIds == Ids \cup {MaxConns + 1}

\* The card indexes a PlayCard is tried with in g: every index of every
\* hand, the two just beyond the longest hand, and one beyond every hand.
ProbeIndexes(g) ==
    LET lens    == {Len(g.players[p].hand) : p \in 1..Len(g.players)} \cup {0}
        longest == CHOOSE n \in lens : \A m \in lens : m <= n
    IN  (0..(longest + 1)) \cup {Len(create_deck)}

\* PlayCard(card_index) by id is a legal move in g: the game runs, id is a
\* player, the index is within the hand, and some center pile accepts the card.
LegalPlay(g, id, card_index) ==
    /\ g.game_started
    /\ g.winner = None
    /\ position(g, id) # 0
    /\ card_index < Len(OwnHand(g, id))
    /\ \E n \in 1..Len(g.center_piles) :
          PileAccepts(g.center_piles[n], OwnHand(g, id)[card_index + 1])

\* C11: silent drop.  A process_command call that is issued before the game
\* is started or after a winner is set (any action), or that is a PlayCard
\* from a non-player, with an index outside the hand, or of a card no center
\* pile accepts, leaves the whole game state unchanged.
C11_SilentDrop ==
    \A id \in ProbeIds :
        /\ (~game.game_started \/ game.winner # None) =>
              process_command(game, id, RequestNewCenterCards) = game
        /\ \A i \in ProbeIndexes(game) :
              ~LegalPlay(game, id, i) => process_command(game, id, PlayCard(i)) = game

\* C11 witness: a running game in which a player holds a card that neither
\* (non-empty) center pile accepts, after cards have been played.
C11_Witness ==
    /\ game.game_started
    /\ game.winner = None
    /\ Len(game.center_piles[1]) > 1
    /\ Len(game.center_piles[2]) > 0
    /\ \E p \in 1..Len(game.players) :
          \E i \in 1..Len(game.players[p].hand) :
              /\ position(game, game.players[p].id) = p
              /\ ~PileAccepts(game.center_piles[1], game.players[p].hand[i])
              /\ ~PileAccepts(game.center_piles[2], game.players[p].hand[i])

\* C12: one-time deal.  A start_game call on an engine that is already
\* started leaves every hand, every draw pile, both center piles and the size
\* of the deck unchanged.
C12_OneTimeDeal ==
    [][(game.game_started /\ \E k \in 0..(MaxShuffle - 1) : game' = start_game(game, k))
          => /\ game'.players = game.players
             /\ game'.center_piles = game.center_piles
             /\ Len(game'.deck) = Len(game.deck)]_vars

\* C13: deterministic pile choice.  Every accepted PlayCard puts the card on
\* the lowest-indexed center pile that accepts it: on pile 0 whenever pile 0
\* accepts it (pile 1 unchanged, also when pile 1 accepts it too), on pile 1
\* only when pile 0 does not (pile 0 unchanged).
C13_PileChoice ==
    \A id \in ProbeIds :
        \A i \in ProbeIndexes(game) :
            LegalPlay(game, id, i) =>
                LET card  == OwnHand(game, id)[i + 1]
                    pile0 == game.center_piles[1]
                    pile1 == game.center_piles[2]
                    after == process_command(game, id, PlayCard(i))
                IN  IF PileAccepts(pile0, card)
                    THEN after.center_piles = <<Append(pile0, card), pile1>>
                    ELSE after.center_piles = <<pile0, Append(pile1, card)>>

\* C13 witness: cards have been played, and a player holds a card that both
\* center piles accept.
C13_Witness ==
    /\ game.game_started
    /\ game.winner = None
    /\ Len(game.center_piles[1]) > 1
    /\ Len(game.center_piles[2]) > 1
    /\ \E p \in 1..Len(game.players) :
          \E i \in 1..Len(game.players[p].hand) :
              /\ position(game, game.players[p].id) = p
              /\ PileAccepts(game.center_piles[1], game.players[p].hand[i])
              /\ PileAccepts(game.center_piles[2], game.players[p].hand[i])

\* C14: hand replenishment.  An accepted PlayCard removes the played card from
\* the player's hand and, with a non-empty draw pile, moves the front card of
\* the draw pile to the end of the hand (hand size unchanged, draw pile one
\* shorter); with an empty draw pile the hand is one card shorter.  No other
\* player's hand or draw pile changes.
C14_HandReplenishment ==
    \A id \in ProbeIds :
        \A i \in ProbeIndexes(game) :
            LegalPlay(game, id, i) =>
                LET pi      == position(game, id)
                    before  == game.players[pi]
                    after   == process_command(game, id, PlayCard(i))
                    without == [n \in 1..(Len(before.hand) - 1) |->
                                   IF n <= i THEN before.hand[n] ELSE before.hand[n + 1]]
                IN  /\ Len(after.players) = Len(game.players)
                    /\ IF Len(before.draw_pile) > 0
                       THEN /\ Len(after.players[pi].hand) = Len(before.hand)
                            /\ after.players[pi].hand = Append(without, before.draw_pile[1])
                            /\ after.players[pi].draw_pile = Tail(before.draw_pile)
                       ELSE /\ Len(after.players[pi].hand) = Len(before.hand) - 1
                            /\ after.players[pi].hand = without
                            /\ after.players[pi].draw_pile = <<>>
                    /\ \A j \in 1..Len(game.players) :
                          j # pi => after.players[j] = game.players[j]

\* C14 witness: a player whose draw pile is used up has played from the hand
\* since, and holds another card that can be played.
C14_Witness ==
    /\ game.game_started
    /\ game.winner = None
    /\ \E p \in 1..Len(game.players) :
          /\ position(game, game.players[p].id) = p
          /\ Len(game.players[p].draw_pile) = 0
          /\ Len(game.players[p].hand) < HandSize
          /\ \E i \in 0..(Len(game.players[p].hand) - 1) :
                LegalPlay(game, game.players[p].id, i)

\* What the deal leaves but for the size of the deck: two players with 5 cards
\* in hand and 15 in the draw pile each, one card on each center pile, the
\* game started and no winner.
Dealt(g) ==
    /\ Len(g.players) = 2
    /\ \A p \in 1..Len(g.players) :
          Len(g.players[p].hand) = 5 /\ Len(g.players[p].draw_pile) = 15
    /\ Len(g.center_piles) = 2
    /\ \A n \in 1..Len(g.center_piles) : Len(g.center_piles[n]) = 1
    /\ g.game_started
    /\ g.winner = None

\* C15: the deal.  Whenever start_game takes effect on a new engine to which
\* two players have been added, the resulting state has a deck of 10 cards,
\* 5 cards in each hand, 15 in each draw pile, 1 on each center pile, the game
\* started and no winner.
C15_Deal ==
    [][(~game.game_started /\ game'.game_started)
          => (Dealt(game') /\ Len(game'.deck) = 10)]_vars

\* C15 as stated: the same with a deck of 8 cards after the deal.
C15_DealDeckOf8 ==
    [][(~game.game_started /\ game'.game_started)
          => (Dealt(game') /\ Len(game'.deck) = 8)]_vars

\* C15 witness: the state right after a deal.
C15_Witness ==
    /\ Dealt(game)
    /\ Len(game.deck) = Len(create_deck) - 2 * (5 + 15) - 2

\* C16: RequestNewCenterCards.  In every started, unfinished state the
\* request, whoever sends it, with a non-empty deck moves the top card of the
\* deck onto pile 0 and the next onto pile 1 (both piles one longer, the deck
\* two shorter), whatever the piles hold; with an empty deck it leaves both
\* center piles as they are.
C16_RequestNewCenterCards ==
    (game.game_started /\ game.winner = None) =>
        \A id \in ProbeIds :
            LET after == process_command(game, id, RequestNewCenterCards)
                n     == Len(game.deck)
            IN  IF n > 0
                THEN /\ Len(after.deck) = n - 2
                     /\ Len(after.center_piles[1]) = Len(game.center_piles[1]) + 1
                     /\ Len(after.center_piles[2]) = Len(game.center_piles[2]) + 1
                     /\ after.center_piles[1] = Append(game.center_piles[1], game.deck[n])
                     /\ after.center_piles[2] = Append(game.center_piles[2], game.deck[n - 1])
                     /\ after.deck = SubSeq(game.deck, 1, n - 2)
                ELSE /\ after.center_piles = game.center_piles
                     /\ after.deck = game.deck

\* C16 witness: a running game whose deck has been used up by requests for
\* new center cards, both piles having grown.
C16_Witness ==
    /\ game.game_started
    /\ game.winner = None
    /\ Len(game.deck) = 0
    /\ Len(game.center_piles[1]) > 1
    /\ Len(game.center_piles[2]) > 1
    /\ \A p \in 1..Len(game.players) : Len(game.players[p].hand) = 5

\* C17: the view projection never fails.  Whenever a connection task is about
\* to compute the views that follow an action, create_player_view returns a
\* view for every registered identity, whatever players the game has (none
\* included), and no task is ever aborted by that computation.
C17_ViewNeverFails ==
    \A t \in Ids :
        /\ pc[t] = "act_players_wait" => \A id \in players : ~view_panics(game, id)
        /\ pc[t] # "panicked"

\* The identity is not the identity of any player of the game.
C18_NotAPlayer(g, id) == \A p \in 1..Len(g.players) : g.players[p].id # id

\* C18: only players mutate the game.  The step in which a connection task
\* applies an inbound action leaves the game unchanged when the connection's
\* identity is not one of the game's players.
C18_OnlyPlayersMutate ==
    [][\A t \in Ids :
          (/\ pc[t] = "act_game_wait"
           /\ pc'[t] = "act_players_wait"
           /\ Len(game.players) = 2
           /\ C18_NotAPlayer(game, t))
              => game' = game]_vars

\* C19: view delivery order.  When both connections wait for a message in a
\* running game, neither having left, the view last handed to each one's
\* socket, if it came from the broadcast that follows an action, is the view
\* of the current game: no view computed from an earlier state of the game
\* has been sent after the view computed from a later one.
C19_ViewDeliveryOrder ==
    (/\ \A t \in 1..MaxOrderConns : pc[t] = "recv"
     /\ players = 1..MaxOrderConns
     /\ game.game_started) =>
        \A r \in players :
            (Len(last_sent[r]) > 0 /\ last_sent[r][2] = "action") =>
                last_sent[r][1] = create_player_view(game, r)

\* The places where a connection task has ended.
Terminated == {"closed", "err_send", "err_text", "panicked"}

\* C20: no stale registry entries.  Every identity in the registry belongs to
\* a connection task that is still running: a task that has ended, for
\* whatever reason, has had its identity removed.
C20_NoStaleEntries ==
    \A t \in Ids : pc[t] \in Terminated => t \notin players

====
